---- MODULE Spec2Model ----
(***************************************************************************)
(* A model of @squirrel-forge/node-taskrunner: the TaskRunner dispatcher   *)
(* (register / getTaskConstructor / error / task / sequence / parallel /   *)
(* run) and the Task base class.  Every async method is cut at its await   *)
(* points: the synchronous prefix of a call is one action, every           *)
(* continuation after an await is another.                                 *)
(***************************************************************************)
EXTENDS Integers, Sequences, FiniteSets, TLC

\* Bounds of the model.
MaxCalls == 1
MaxRegister == 2
MaxTasks == 2

(***************************************************************************)
(* JavaScript values, tagged.                                              *)
(***************************************************************************)
Undef == [tag |-> "undefined"]
Null == [tag |-> "null"]
Num(n) == [tag |-> "number", n |-> n]
Str(s) == [tag |-> "string", s |-> s]
Arr(items) == [tag |-> "array", items |-> items]
\* a plain object: own keys in insertion order, and the value of each key
Obj(keys, at) == [tag |-> "object", keys |-> keys, at |-> at]
EmptyObj == Obj(<<>>, <<>>)
\* an object that is not a plain one (a class instance)
Instance == [tag |-> "instance"]
\* the elapsed time Timer.end gives
HrTime == [tag |-> "hrtime"]
\* an identifier made by strand()
Gen(n) == [tag |-> "strand", n |-> n]
\* a promise as a value (what parallel stores under each key)
PromiseVal(p) == [tag |-> "promise", state |-> p.state, value |-> p.value, reason |-> p.reason]

\* property read o[k] on a value that is not null or undefined
Get(o, k) == IF o.tag = "object" /\ k \in DOMAIN o.at THEN o.at[k] ELSE Undef

\* property write o[k] = v on a plain object
Set(o, k, v) ==
    Obj(IF k \in DOMAIN o.at THEN o.keys ELSE Append(o.keys, k),
        [x \in (DOMAIN o.at) \cup {k} |-> IF x = k THEN v ELSE o.at[x]])

\* ToBoolean
Truthy(v) ==
    CASE v.tag \in {"undefined", "null"} -> FALSE
      [] v.tag = "number" -> v.n # 0
      [] v.tag = "string" -> v.s # ""
      [] OTHER -> TRUE

\* typeof v
TypeOf(v) ==
    CASE v.tag = "undefined" -> "undefined"
      [] v.tag = "number" -> "number"
      [] v.tag = "string" -> "string"
      [] OTHER -> "object"

\* isPojo of @squirrel-forge/node-objection: a plain keyed mapping
isPojo(v) == v.tag = "object"

\* v instanceof Array
IsArray(v) == v.tag = "array"

\* Object.entries( o ): the own keys in insertion order
Entries(o) == o.keys

(***************************************************************************)
(* Promises: the state of an async call.                                   *)
(***************************************************************************)
Pending == [state |-> "pending", value |-> Undef, reason |-> "none"]
Fulfilled(v) == [state |-> "fulfilled", value |-> v, reason |-> "none"]
Rejected(e) == [state |-> "rejected", value |-> Undef, reason |-> e]

\* The names a task type is registered or looked up under.  "constructor" is
\* also the name of a property every plain object inherits.
TypeNames == {"noop", "constructor"}

\* What a caller may hand to register: the Task base class, a subclass of it
\* whose run does the work, a class whose constructor throws, and a value
\* that is not a function.
Functions == {"Task", "Sub", "Thrower"}
Registrable == Functions \cup {"NotFn"}

VARIABLES
    strict,        \* this._strict
    notify,        \* this._notify is set
    parser,        \* this._parser is set
    types,         \* this._types: the own properties, "none" where there is none
    lastRegister,  \* the latest register call and what came of it
    nregs,         \* register calls made
    calls,         \* the calls of run / sequence / parallel / task, in call order
    tasks,         \* the objects the task constructors have produced
    strands,       \* identifiers strand() has made
    shared         \* the defaults mapping a caller hands to each new Task

vars == <<strict, notify, parser, types, lastRegister, nregs, calls, tasks,
          strands, shared>>

(***************************************************************************)
(* TaskRunner: error, register, getTaskConstructor.                        *)
(***************************************************************************)

\* error( err ): throw in strict mode, else hand err to the notify callback
\* when there is one.  throws: whether it throws; reports: what notify got.
error(err) ==
    [throws |-> strict,
     reports |-> IF ~strict /\ notify THEN <<err>> ELSE <<>>]

\* a property of Object.prototype, which this._types = {} inherits
Inherited(name) == IF name = "constructor" THEN "ObjectFn" ELSE "none"

\* this._types[ name ]: the own property, else the inherited one
TypesGet(name) == IF types[name] # "none" THEN types[name] ELSE Inherited(name)

\* getTaskConstructor( name )
getTaskConstructor(name) ==
    IF TypesGet(name) # "none" THEN TypesGet(name) ELSE "null"

\* register() with the return after its first error() lost: when error()
\* returns, the value that is no function is written
registerNoReturn(name, TaskConstructor, replace) ==
    IF TaskConstructor \notin Functions
    THEN [types |-> IF error("NotCallable").throws THEN types
                    ELSE [types EXCEPT ![name] = TaskConstructor],
          fault |-> "NotCallable",
          thrown |-> error("NotCallable").throws,
          reports |-> error("NotCallable").reports]
    ELSE IF ~replace /\ TypesGet(name) # "none"
    THEN [types |-> types, fault |-> "Duplicate",
          thrown |-> error("Duplicate").throws,
          reports |-> error("Duplicate").reports]
    ELSE [types |-> [types EXCEPT ![name] = TaskConstructor], fault |-> "none",
          thrown |-> FALSE, reports |-> <<>>]

\* register() with the else of its duplicate check lost: the fault is handed
\* to error() and, when error() returns, the entry is written all the same
registerNoElse(name, TaskConstructor, replace) ==
    IF TaskConstructor \notin Functions
    THEN [types |-> types, fault |-> "NotCallable",
          thrown |-> error("NotCallable").throws,
          reports |-> error("NotCallable").reports]
    ELSE IF ~replace /\ TypesGet(name) # "none"
    THEN [types |-> IF error("Duplicate").throws THEN types
                    ELSE [types EXCEPT ![name] = TaskConstructor],
          fault |-> "Duplicate",
          thrown |-> error("Duplicate").throws,
          reports |-> error("Duplicate").reports]
    ELSE [types |-> [types EXCEPT ![name] = TaskConstructor], fault |-> "none",
          thrown |-> FALSE, reports |-> <<>>]

\* register( name, TaskConstructor, replace ): the registry after the call,
\* whether the call threw and what it reported
register(name, TaskConstructor, replace) ==
    IF TaskConstructor \notin Functions
    THEN [types |-> types, fault |-> "NotCallable",
          thrown |-> error("NotCallable").throws,
          reports |-> error("NotCallable").reports]
    ELSE IF ~replace /\ TypesGet(name) # "none"
    THEN [types |-> types, fault |-> "Duplicate",
          thrown |-> error("Duplicate").throws,
          reports |-> error("Duplicate").reports]
    ELSE [types |-> [types EXCEPT ![name] = TaskConstructor], fault |-> "none",
          thrown |-> FALSE, reports |-> <<>>]

(***************************************************************************)
(* Task: constructor, stats, run.                                          *)
(***************************************************************************)

\* strand(): an identifier not made before
strand == Gen(strands + 1)

\* new Task( runner, options, defaults ): the defaults get a generated id
\* written into them when they carry none, and the effective options this._
\* are the clone of the defaults with the caller's options merged on top
TaskNew(options, defaults) ==
    LET generated == ~Truthy(Get(defaults, "id"))
        given == IF generated THEN Set(defaults, "id", strand) ELSE defaults
        keys == IF isPojo(options) THEN options.keys ELSE <<>>
        Merge[i \in 0..Len(keys)] ==
            IF i = 0 THEN given
            ELSE Set(Merge[i - 1], keys[i], options.at[keys[i]])
    IN  [options |-> Merge[Len(keys)], defaults |-> given,
         generated |-> generated]

\* new Task( runner, options ): defaults is a new {} of the call
TaskOptions(options) == TaskNew(options, EmptyObj).options

\* Task.stats( data ): id and time forced onto data
stats(task, data) == Set(Set(data, "id", Get(task.options, "id")), "time", HrTime)

\* new TaskConstructor( runner, options ): whether it throws, and the object
\* it gives.  Object( runner, options ) gives the runner itself; Task and a
\* subclass that passes its arguments on run the Task constructor.
Construct(TaskConstructor, options) ==
    CASE TaskConstructor = "Thrower" ->
            [threw |-> TRUE, task |-> Undef]
      [] TaskConstructor = "ObjectFn" ->
            [threw |-> FALSE,
             task |-> [ctor |-> "ObjectFn", options |-> EmptyObj]]
      [] OTHER ->
            [threw |-> FALSE,
             task |-> [ctor |-> TaskConstructor, options |-> TaskOptions(options)]]

(***************************************************************************)
(* TaskRunner.run.                                                         *)
(***************************************************************************)

\* run( taskInput ): the first statement after stats = null reads taskMap,
\* an identifier bound nowhere in run's scope, so evaluating it throws a
\* ReferenceError before taskInput is looked at; an async function gives
\* that as its rejected promise.  Nothing below that line is reached.
run(taskInput) == Rejected("ReferenceError")

\* task.run( ...args ) as called by task(): the promise it returns at once.
\* Task.run always throws; a subclass's run settles later; the runner's own
\* run (the object Object( runner ) gave) is run( args[0] ).
StartRun(task, args) ==
    CASE task.ctor = "Task" -> Rejected("NotImplemented")
      [] task.ctor = "ObjectFn" -> run(IF Len(args) > 0 THEN args[1] ELSE Undef)
      [] OTHER -> Pending

(***************************************************************************)
(* TaskRunner.task.                                                        *)
(***************************************************************************)

\* What the preprocessing hook makes of the descriptor it is given: it
\* injects a computed id.  It is given descriptors only.
ParserResults(taskData) ==
    IF isPojo(taskData) THEN {Set(taskData, "id", Str("p"))} ELSE {taskData}

\* the check that opens task()
InvalidTaskData(taskData) ==
    \/ ~Truthy(taskData)
    \/ TypeOf(taskData) # "object"
    \/ TypeOf(Get(taskData, "type")) # "string"
    \/ Get(taskData, "type").s = ""

\* taskData.args made an array
\* the args with no wrapping of a value that is not an array
NormalArgsBare(args) ==
    IF IsArray(args) THEN args.items ELSE <<>>

\* taskData.args made an array (the comment above is this operator's)
NormalArgs(args) ==
    IF IsArray(args) THEN args.items
    ELSE IF Truthy(args) THEN <<args>> ELSE <<>>

\* taskData.id put in only where the options have no id of their own
NormalOptionsKeep(taskData) ==
    LET options == IF isPojo(Get(taskData, "options"))
                   THEN Get(taskData, "options") ELSE EmptyObj
    IN  IF Truthy(Get(taskData, "id")) /\ Get(options, "id") = Undef
        THEN Set(options, "id", Get(taskData, "id")) ELSE options

\* taskData.options made a plain object, with taskData.id put in
NormalOptions(taskData) ==
    LET options == IF isPojo(Get(taskData, "options"))
                   THEN Get(taskData, "options") ELSE EmptyObj
    IN  IF Truthy(Get(taskData, "id"))
        THEN Set(options, "id", Get(taskData, "id")) ELSE options

\* A call of task() that ends before any await
TaskEnds(taskData, promise, reports, parsedWith, ctor, threw) ==
    [op |-> "task", input |-> taskData, state |-> promise.state,
     value |-> promise.value, reason |-> promise.reason, reports |-> reports,
     parsed |-> parsedWith, ctor |-> ctor, ctorThrew |-> threw,
     args |-> <<>>, task |-> 0]

\* The outcome of a fault handed to error(), with the value the caller of
\* error() returns when error() returns
Faulted(err, value) ==
    IF error(err).throws THEN Rejected(err) ELSE Fulfilled(value)

\* task( taskData ) up to its await of task.run, with parsedData what the
\* hook made of taskData: the call (settled, or pending on the run of the
\* task it made) and the task object constructed, if any
task(taskData, parsedData) ==
    IF InvalidTaskData(taskData)
    THEN IF taskData.tag \in {"null", "undefined"}
         \* the message reads taskData.type
         THEN [call |-> TaskEnds(taskData, Rejected("TypeError"), <<>>, <<>>,
                                 "none", FALSE),
               made |-> <<>>]
         ELSE [call |-> TaskEnds(taskData, Faulted("InvalidTaskType", Null),
                                 error("InvalidTaskType").reports, <<>>,
                                 "none", FALSE),
               made |-> <<>>]
    ELSE
    LET data == IF parser THEN parsedData ELSE taskData
        parsedWith == IF parser THEN <<taskData>> ELSE <<>>
        options == NormalOptions(data)
        args == NormalArgs(Get(data, "args"))
        TaskConstructor == getTaskConstructor(Get(data, "type").s)
        made == Construct(TaskConstructor, options)
    IN  IF TaskConstructor = "null"
        THEN [call |-> TaskEnds(taskData, Faulted("UnknownTaskType", Null),
                                error("UnknownTaskType").reports, parsedWith,
                                "null", FALSE),
              made |-> <<>>]
        ELSE IF made.threw
        THEN [call |-> TaskEnds(taskData, Faulted("FailedConstruct", Null),
                                error("FailedConstruct").reports, parsedWith,
                                TaskConstructor, TRUE),
              made |-> <<>>]
        ELSE [call |-> [op |-> "task", input |-> taskData, state |-> "pending",
                        value |-> Undef, reason |-> "none", reports |-> <<>>,
                        parsed |-> parsedWith, ctor |-> TaskConstructor,
                        ctorThrew |-> FALSE, args |-> args,
                        task |-> Len(tasks) + 1],
              made |-> <<[ctor |-> made.task.ctor, options |-> made.task.options,
                          args |-> args,
                          run |-> StartRun(made.task, args)]>>]

\* task() with no try around await task.run: the fault of the run goes out as
\* it is
taskAwaitRaw(p) ==
    IF p.state = "rejected"
    THEN [promise |-> Rejected(p.reason), reports |-> <<>>]
    ELSE [promise |-> Fulfilled(p.value), reports |-> <<>>]

\* task() after its await of task.run: the promise of task() once the
\* promise p of the run has settled
taskAwait(p) ==
    IF p.state = "rejected"
    THEN [promise |-> Faulted("FailedRun", Null),
          reports |-> error("FailedRun").reports]
    ELSE [promise |-> Fulfilled(p.value), reports |-> <<>>]

(***************************************************************************)
(* TaskRunner.sequence and TaskRunner.parallel.                            *)
(***************************************************************************)

\* A call of run / sequence / parallel: kids are the promises of the run
\* calls it has made, in call order, each with the key and the value it was
\* made for; stats are the results sequence has stored
Call(op, taskMap, promise, reports, kids, stored) ==
    [op |-> op, input |-> taskMap, state |-> promise.state,
     value |-> promise.value, reason |-> promise.reason, reports |-> reports,
     kids |-> kids, stats |-> stored]

\* this.run( value ) as sequence and parallel call it: the promise, kept
\* with the key it belongs to (for sequence the position, counted from 1)
Kid(key, value) ==
    [key |-> key, input |-> value, state |-> run(value).state,
     value |-> run(value).value, reason |-> run(value).reason]

\* sequence( taskMap ) up to its first await
sequence(taskMap) ==
    IF ~IsArray(taskMap)
    THEN Call("sequence", taskMap, Faulted("InvalidSequence", Arr(<<>>)),
              error("InvalidSequence").reports, <<>>, <<>>)
    ELSE IF Len(taskMap.items) = 0
    THEN Call("sequence", taskMap, Fulfilled(Arr(<<>>)), <<>>, <<>>, <<>>)
    ELSE Call("sequence", taskMap, Pending, <<>>,
              <<Kid(1, taskMap.items[1])>>, <<>>)

\* sequence() with the await in a try that stores null for a step that
\* failed and goes on with the next
sequenceAwaitContinue(c) ==
    LET i == Len(c.kids)
        p == c.kids[i]
        stored == Append(c.stats, IF p.state = "rejected" THEN Null ELSE p.value)
    IN  IF i < Len(c.input.items)
        THEN [c EXCEPT !.stats = stored,
                       !.kids = Append(@, Kid(i + 1, c.input.items[i + 1]))]
        ELSE [c EXCEPT !.stats = stored, !.state = "fulfilled",
                       !.value = Arr(stored)]

\* sequence() after stats[ i ] = await this.run( taskMap[ i ] ): the call c
\* once the latest run has settled.  A rejection is thrown out of sequence;
\* a value is stored and the loop goes on.
sequenceAwait(c) ==
    LET i == Len(c.kids)
        p == c.kids[i]
        stored == Append(c.stats, p.value)
    IN  IF p.state = "rejected"
        THEN [c EXCEPT !.state = "rejected", !.reason = p.reason]
        ELSE IF i < Len(c.input.items)
        THEN [c EXCEPT !.stats = stored,
                       !.kids = Append(@, Kid(i + 1, c.input.items[i + 1]))]
        ELSE [c EXCEPT !.stats = stored, !.state = "fulfilled",
                       !.value = Arr(stored)]

\* the check that opens parallel()
\* the check of parallel with its test of taskMap.type lost
InvalidParallelNoType(taskMap) == ~isPojo(taskMap)

InvalidParallel(taskMap) ==
    ~isPojo(taskMap) \/ TypeOf(Get(taskMap, "type")) = "string"

\* parallel() awaiting each run inside its loop, as sequence does: only the
\* first entry is started before it waits
parallelSerial(taskMap) ==
    IF InvalidParallel(taskMap)
    THEN Call("parallel", taskMap, Faulted("InvalidParallel", EmptyObj),
              error("InvalidParallel").reports, <<>>, <<>>)
    ELSE Call("parallel", taskMap, Pending, <<>>,
              [i \in 1..(IF Len(Entries(taskMap)) > 0 THEN 1 ELSE 0) |->
                    Kid(Entries(taskMap)[i], taskMap.at[Entries(taskMap)[i]])],
              <<>>)

\* parallel( taskMap ) up to its await: a run is started for every entry, in
\* the order of Object.entries, and none is waited for
parallel(taskMap) ==
    IF InvalidParallel(taskMap)
    THEN Call("parallel", taskMap, Faulted("InvalidParallel", EmptyObj),
              error("InvalidParallel").reports, <<>>, <<>>)
    ELSE Call("parallel", taskMap, Pending, <<>>,
              [i \in 1..Len(Entries(taskMap)) |->
                    Kid(Entries(taskMap)[i], taskMap.at[Entries(taskMap)[i]])],
              <<>>)

\* Promise.all( tasks ) of promises that have all settled by the time it is
\* called: the rejection of the first rejected one, else the values
PromiseAll(ps) ==
    LET rejected == {i \in 1..Len(ps) : ps[i].state = "rejected"}
        first == CHOOSE i \in rejected : \A j \in rejected : i <= j
    IN  IF rejected # {} THEN Rejected(ps[first].reason)
        ELSE IF \E i \in 1..Len(ps) : ps[i].state = "pending" THEN Pending
        ELSE Fulfilled(Arr([i \in 1..Len(ps) |-> ps[i].value]))

\* parallel() that cancels the other branches when one has failed
parallelAwaitCancel(c) ==
    LET all == PromiseAll(c.kids)
        first == CHOOSE i \in 1..Len(c.kids) : c.kids[i].state = "rejected"
    IN  IF all.state = "rejected"
        THEN [c EXCEPT !.state = "rejected", !.reason = all.reason,
                       !.kids = [i \in 1..Len(c.kids) |->
                                    IF i = first THEN c.kids[i]
                                    ELSE [c.kids[i] EXCEPT !.state = "cancelled"]]]
        ELSE c

\* parallel() after await Promise.all( tasks ): a rejection is thrown out of
\* parallel; else stats is returned, which holds under each key the promise
\* run gave for it
parallelAwait(c) ==
    LET all == PromiseAll(c.kids) IN
    IF all.state = "rejected"
    THEN [c EXCEPT !.state = "rejected", !.reason = all.reason]
    ELSE [c EXCEPT !.state = "fulfilled",
                   !.value = Obj([i \in 1..Len(c.kids) |-> c.kids[i].key],
                                 [k \in {c.kids[i].key : i \in 1..Len(c.kids)} |->
                                    PromiseVal(CHOOSE p \in {c.kids[i] : i \in 1..Len(c.kids)} : p.key = k)])]

(***************************************************************************)
(* The values the caller hands in.                                         *)
(***************************************************************************)
Desc(type) == Obj(<<"type">>, [type |-> Str(type)])

TaskDatas ==
    { Null,
      Num(5),
      Obj(<<"type">>, [type |-> Num(7)]),
      Desc(""),
      Desc("noop"),
      Obj(<<"type", "args">>,
          [type |-> Str("constructor"), args |-> Arr(<<Num(1), Num(2)>>)]),
      Obj(<<"type", "options", "id", "args">>,
          [type |-> Str("noop"), options |-> Obj(<<"id">>, [id |-> Str("o")]),
           id |-> Str("x"), args |-> Num(5)]),
      Obj(<<"type", "options", "args">>,
          [type |-> Str("noop"), options |-> Instance, args |-> Num(0)]) }

SequenceInputs ==
    { EmptyObj, Arr(<<>>), Arr(<<Desc("noop"), Desc("noop")>>) }

ParallelInputs ==
    { Null,
      Desc("noop"),
      EmptyObj,
      Obj(<<"a", "b">>, [a |-> Desc("noop"), b |-> Desc("noop")]),
      Obj(<<"type", "a">>, [type |-> Num(7), a |-> Desc("noop")]) }

RunInputs ==
    { Num(5),
      Desc("noop"),
      Arr(<<Desc("noop"), Desc("noop")>>),
      Obj(<<"a", "b">>, [a |-> Desc("noop"), b |-> Desc("noop")]) }

RegisterInputs ==
    { <<"noop", "Sub", FALSE>>, <<"noop", "Sub", TRUE>>,
      <<"noop", "Thrower", FALSE>>, <<"noop", "Thrower", TRUE>>,
      <<"noop", "Task", FALSE>>, <<"noop", "NotFn", FALSE>>,
      <<"constructor", "Sub", FALSE>>, <<"constructor", "Sub", TRUE>> }

\* What the run of a subclass may settle with: the record stats( {} ) gives,
\* null, or a fault of its own
RunOutcomes(t) ==
    { Fulfilled(stats(t, EmptyObj)), Fulfilled(Null), Rejected("RunError") }

(***************************************************************************)
(* The state machine.                                                      *)
(***************************************************************************)
NoRegister ==
    [name |-> "none", ctor |-> "none", replace |-> FALSE, before |-> "none",
     found |-> "none", fault |-> "none", thrown |-> FALSE, reports |-> <<>>]

\* new TaskRunner( strict, notify, taskParser ); in strict mode error() never
\* reads this._notify, so one value of it stands for both
Init ==
    /\ strict \in BOOLEAN
    /\ notify \in (IF strict THEN {FALSE} ELSE BOOLEAN)
    /\ parser \in BOOLEAN
    /\ types = [n \in TypeNames |-> "none"]
    /\ lastRegister = NoRegister
    /\ nregs = 0
    /\ calls = <<>>
    /\ tasks = <<>>
    /\ strands = 0
    /\ shared = EmptyObj

Register(name, TaskConstructor, replace) ==
    /\ nregs < MaxRegister
    /\ nregs' = nregs + 1
    /\ LET r == register(name, TaskConstructor, replace) IN
        /\ types' = r.types
        /\ lastRegister' = [name |-> name, ctor |-> TaskConstructor,
                            replace |-> replace, before |-> types[name],
                            found |-> TypesGet(name), fault |-> r.fault,
                            thrown |-> r.thrown, reports |-> r.reports]
    /\ UNCHANGED <<strict, notify, parser, calls, tasks, strands, shared>>

\* a lookup by the caller: it reads the registry and changes nothing
GetTaskConstructor(name) ==
    /\ getTaskConstructor(name) \in Functions \cup {"ObjectFn", "null"}
    /\ UNCHANGED vars

\* the Task constructor calls strand() once, for the defaults it is given
CallTask(taskData, parsedData) ==
    /\ Len(calls) < MaxCalls
    /\ LET r == task(taskData, parsedData) IN
        /\ calls' = Append(calls, r.call)
        /\ tasks' = tasks \o r.made
        /\ strands' = IF r.made # <<>> /\ r.made[1].ctor # "ObjectFn"
                      THEN strands + 1 ELSE strands
    /\ UNCHANGED <<strict, notify, parser, types, lastRegister, nregs, shared>>

\* the run of a subclass's task settles
TaskSettle(t, outcome) ==
    /\ tasks[t].run.state = "pending"
    /\ tasks' = [tasks EXCEPT ![t].run = outcome]
    /\ UNCHANGED <<strict, notify, parser, types, lastRegister, nregs, calls,
                   strands, shared>>

\* task() goes on after its await
TaskResume(c) ==
    /\ calls[c].op = "task"
    /\ calls[c].state = "pending"
    /\ tasks[calls[c].task].run.state # "pending"
    /\ LET r == taskAwait(tasks[calls[c].task].run) IN
        calls' = [calls EXCEPT ![c].state = r.promise.state,
                               ![c].value = r.promise.value,
                               ![c].reason = r.promise.reason,
                               ![c].reports = r.reports]
    /\ UNCHANGED <<strict, notify, parser, types, lastRegister, nregs, tasks,
                   strands, shared>>

CallSequence(taskMap) ==
    /\ Len(calls) < MaxCalls
    /\ calls' = Append(calls, sequence(taskMap))
    /\ UNCHANGED <<strict, notify, parser, types, lastRegister, nregs, tasks,
                   strands, shared>>

SequenceResume(c) ==
    /\ calls[c].op = "sequence"
    /\ calls[c].state = "pending"
    /\ calls[c].kids[Len(calls[c].kids)].state # "pending"
    /\ calls' = [calls EXCEPT ![c] = sequenceAwait(calls[c])]
    /\ UNCHANGED <<strict, notify, parser, types, lastRegister, nregs, tasks,
                   strands, shared>>

CallParallel(taskMap) ==
    /\ Len(calls) < MaxCalls
    /\ calls' = Append(calls, parallel(taskMap))
    /\ UNCHANGED <<strict, notify, parser, types, lastRegister, nregs, tasks,
                   strands, shared>>

ParallelResume(c) ==
    /\ calls[c].op = "parallel"
    /\ calls[c].state = "pending"
    /\ PromiseAll(calls[c].kids).state # "pending"
    /\ calls' = [calls EXCEPT ![c] = parallelAwait(calls[c])]
    /\ UNCHANGED <<strict, notify, parser, types, lastRegister, nregs, tasks,
                   strands, shared>>

CallRun(taskInput) ==
    /\ Len(calls) < MaxCalls
    /\ calls' = Append(calls, Call("run", taskInput, run(taskInput), <<>>, <<>>, <<>>))
    /\ UNCHANGED <<strict, notify, parser, types, lastRegister, nregs, tasks,
                   strands, shared>>

Next ==
    \/ \E r \in RegisterInputs : Register(r[1], r[2], r[3])
    \/ \E name \in TypeNames : GetTaskConstructor(name)
    \/ \E taskData \in TaskDatas : \E parsedData \in ParserResults(taskData) :
            CallTask(taskData, parsedData)
    \/ \E t \in 1..Len(tasks) : \E outcome \in RunOutcomes(tasks[t]) :
            TaskSettle(t, outcome)
    \/ \E c \in 1..Len(calls) : TaskResume(c)
    \/ \E taskMap \in SequenceInputs : CallSequence(taskMap)
    \/ \E c \in 1..Len(calls) : SequenceResume(c)
    \/ \E taskMap \in ParallelInputs : CallParallel(taskMap)
    \/ \E c \in 1..Len(calls) : ParallelResume(c)
    \/ \E taskInput \in RunInputs : CallRun(taskInput)

Spec == Init /\ [][Next]_vars

(***************************************************************************)
(* The Task constructor called by a subclass or a caller of its own.       *)
(***************************************************************************)

\* The options a Task is made with
OptionInputs == { Null, EmptyObj, Set(EmptyObj, "id", Str("o")) }

\* The defaults a Task is made with: a new {} of the call, a new mapping
\* with an id of the call, or one mapping the caller keeps for all its tasks
DefaultsInputs == { "own", "named", "shared" }

\* new Task( runner, options, defaults )
NewTask(options, kind) ==
    /\ Len(tasks) < MaxTasks
    /\ LET defaults == CASE kind = "own" -> EmptyObj
                         [] kind = "named" -> Set(EmptyObj, "id", Str("d"))
                         [] kind = "shared" -> shared
           r == TaskNew(options, defaults)
       IN  /\ tasks' = Append(tasks, [ctor |-> "Task", options |-> r.options,
                                      args |-> <<>>, run |-> Pending,
                                      given |-> options, defaults |-> kind])
           /\ strands' = IF r.generated THEN strands + 1 ELSE strands
           /\ shared' = IF kind = "shared" THEN r.defaults ELSE shared
    /\ UNCHANGED <<strict, notify, parser, types, lastRegister, nregs, calls>>

NextIds ==
    \E options \in OptionInputs : \E kind \in DefaultsInputs :
        NewTask(options, kind)

SpecIds == Init /\ [][NextIds]_vars

(***************************************************************************)
(* The claims.                                                             *)
(***************************************************************************)
CallIds == 1..Len(calls)
Settled(c) == c.state # "pending"

\* the faults that reach a caller through error() in strict mode
ErrorFaults ==
    {"InvalidInput", "InvalidSequence", "InvalidParallel", "InvalidTaskType",
     "UnknownTaskType", "FailedConstruct", "FailedRun"}

\* a descriptor: a plain object whose type is a non-empty string
IsDescriptor(v) ==
    /\ isPojo(v)
    /\ TypeOf(Get(v, "type")) = "string"
    /\ Get(v, "type").s # ""

\* C1: run of an ordered sequence is the work of sequence: once it has
\* settled it has either resolved to an ordered sequence as long as the
\* input, or (strict mode) raised a fault that came through error().
C1_RunOfSequence ==
    \A i \in CallIds :
        LET c == calls[i] IN
        (c.op = "run" /\ IsArray(c.input) /\ Settled(c)) =>
            /\ c.state = "rejected" => (strict /\ c.reason \in ErrorFaults)
            /\ c.state = "fulfilled" =>
                (IsArray(c.value) /\ Len(c.value.items) = Len(c.input.items))

C3_RunOfMapping ==
    \A i \in CallIds :
        LET c == calls[i] IN
        (c.op = "run" /\ isPojo(c.input) /\ "type" \notin DOMAIN c.input.at
            /\ Settled(c)) =>
            /\ c.state = "rejected" => (strict /\ c.reason \in ErrorFaults)
            /\ c.state = "fulfilled" =>
                /\ isPojo(c.value)
                /\ DOMAIN c.value.at = DOMAIN c.input.at
                /\ \A k \in DOMAIN c.value.at : c.value.at[k].tag # "promise"

\* C4: run of a descriptor is the work of task and returns what task
\* returns: the only faults it can raise are those task raises in strict
\* mode.
C4_RunOfDescriptor ==
    \A i \in CallIds :
        LET c == calls[i] IN
        (c.op = "run" /\ IsDescriptor(c.input) /\ Settled(c)) =>
            (c.state = "rejected" => (strict /\ c.reason \in ErrorFaults))

\* C5: in non-strict mode a fault in a branch is only reported: no branch
\* that sequence or parallel started, and no sequence or parallel call,
\* ends rejected, and a sequence that has settled has started every step.
C5_NonStrictOnlyReports ==
    ~strict =>
        \A i \in CallIds :
            LET c == calls[i] IN
            (c.op \in {"sequence", "parallel"}) =>
                /\ c.state # "rejected"
                /\ \A j \in 1..Len(c.kids) : c.kids[j].state # "rejected"
                /\ (c.op = "sequence" /\ IsArray(c.input) /\ Settled(c)) =>
                        Len(c.kids) = Len(c.input.items)

\* C6: in strict mode, once step i of a sequence has ended in a fault, no
\* step after i is started, the sequence does not resolve, and when it
\* settles it raises that fault.
C6_StrictSequenceAborts ==
    strict =>
        \A i \in CallIds :
            LET c == calls[i] IN
            c.op = "sequence" =>
                \A j \in 1..Len(c.kids) :
                    c.kids[j].state = "rejected" =>
                        /\ Len(c.kids) = j
                        /\ c.state # "fulfilled"
                        /\ Settled(c) => c.reason = c.kids[j].reason

\* a strict sequence of two steps that has raised the fault of its first step,
\* the second never started
C6_Witness ==
    /\ strict
    /\ \E i \in CallIds :
        /\ calls[i].op = "sequence"
        /\ calls[i].state = "rejected"
        /\ IsArray(calls[i].input)
        /\ Len(calls[i].input.items) = 2
        /\ Len(calls[i].kids) = 1
        /\ calls[i].reason = calls[i].kids[1].reason

IsNewCall == Len(calls') = Len(calls) + 1
NewCall == calls'[Len(calls')]

\* C8: in non-strict mode, a call of task() with a descriptor whose type has
\* no registered constructor resolves to null, reports "unknown task type"
\* to notify when there is one, and constructs nothing.
C8_UnknownTypeReported ==
    [][(~strict /\ IsNewCall /\ NewCall.op = "task"
            /\ IsDescriptor(NewCall.input)
            /\ types[Get(NewCall.input, "type").s] = "none") =>
        /\ NewCall.state = "fulfilled"
        /\ NewCall.value = Null
        /\ notify => NewCall.reports = <<"UnknownTaskType">>
        /\ tasks' = tasks]_vars

\* C9: the fault of a constructor or of a task's run never leaves task() as
\* it is: a constructor that threw gives "failed to construct task" and no
\* task is run; a run that failed gives "failed to run task"; raised in
\* strict mode, else reported and the call resolves to null.
C9_TaskWrapsFaults ==
    \A i \in CallIds :
        LET c == calls[i] IN
        c.op = "task" =>
            /\ c.ctorThrew =>
                /\ c.task = 0
                /\ strict => (c.state = "rejected" /\ c.reason = "FailedConstruct")
                /\ ~strict => (c.state = "fulfilled" /\ c.value = Null)
                /\ (~strict /\ notify) => c.reports = <<"FailedConstruct">>
            /\ (c.task # 0 /\ Settled(c) /\ tasks[c.task].run.state = "rejected") =>
                /\ strict => (c.state = "rejected" /\ c.reason = "FailedRun")
                /\ ~strict => (c.state = "fulfilled" /\ c.value = Null)
                /\ (~strict /\ notify) => c.reports = <<"FailedRun">>
            /\ c.task # 0 => c.task \in 1..Len(tasks)
            /\ Cardinality({j \in CallIds : calls[j].op = "task" /\ calls[j].task # 0})
                    = Len(tasks)

\* a task() call whose task's run failed with its own fault and that has
\* raised the wrapping fault
C9_Witness ==
    \E i \in CallIds :
        /\ calls[i].op = "task"
        /\ calls[i].task # 0
        /\ tasks[calls[i].task].run.reason = "RunError"
        /\ calls[i].state = "rejected"
        /\ calls[i].reason = "FailedRun"

\* C10: a call of task() with anything that is not a descriptor fails with
\* "invalid task type": the hook and the constructors are not invoked, in
\* non-strict mode it resolves to null, in strict mode that fault is raised.
C10_InvalidTaskData ==
    \A i \in CallIds :
        LET c == calls[i] IN
        (c.op = "task" /\ ~IsDescriptor(c.input)) =>
            /\ c.parsed = <<>>
            /\ c.ctor = "none"
            /\ c.task = 0
            /\ ~strict => (c.state = "fulfilled" /\ c.value = Null)
            /\ strict => (c.state = "rejected" /\ c.reason = "InvalidTaskType")

\* C11: run of a value that is neither an ordered sequence nor a plain
\* mapping fails with "invalid task input type": raised in strict mode, else
\* reported once to notify and the call resolves to null.
C11_InvalidRunInput ==
    \A i \in CallIds :
        LET c == calls[i] IN
        (c.op = "run" /\ ~IsArray(c.input) /\ ~isPojo(c.input)) =>
            /\ strict => (c.state = "rejected" /\ c.reason = "InvalidInput")
            /\ ~strict => (c.state = "fulfilled" /\ c.value = Null)
            /\ (~strict /\ notify) => c.reports = <<"InvalidInput">>

\* C12: a register call with a constructor for a name that has an entry
\* leaves that entry as it was and fails with "duplicate type" when replace
\* is false, and makes the new constructor the entry when replace is true.
C12_DuplicateRegister ==
    (lastRegister.before # "none" /\ lastRegister.ctor \in Functions) =>
        /\ ~lastRegister.replace =>
            /\ types[lastRegister.name] = lastRegister.before
            /\ lastRegister.fault = "Duplicate"
            /\ lastRegister.thrown = strict
            /\ (~strict /\ notify) => lastRegister.reports = <<"Duplicate">>
        /\ lastRegister.replace =>
            /\ types[lastRegister.name] = lastRegister.ctor
            /\ lastRegister.fault = "none"
            /\ ~lastRegister.thrown

\* a second registration of a name, without replace, of another constructor,
\* reported to notify
C12_Witness ==
    /\ lastRegister.before # "none"
    /\ lastRegister.ctor \in Functions
    /\ lastRegister.ctor # lastRegister.before
    /\ ~lastRegister.replace
    /\ lastRegister.reports = <<"Duplicate">>

\* The descriptor task() works on: what the hook made of its input when a
\* hook is configured, else the input
DataOf(c) ==
    IF parser /\ c.parsed # <<>>
    THEN CHOOSE d \in ParserResults(c.input) : TRUE ELSE c.input

\* The calls of task() that constructed a task and called its run
Invoked == { i \in CallIds : calls[i].op = "task" /\ calls[i].task # 0 }

\* C13: the arguments passed to a task's run are the descriptor's args when
\* that is a sequence, the empty sequence when args is absent, and <<v>> for
\* every other value v.
C13_ArgsWrapped ==
    \A i \in Invoked :
        LET a == Get(DataOf(calls[i]), "args") IN
        tasks[calls[i].task].args =
            IF IsArray(a) THEN a.items ELSE IF a = Undef THEN <<>> ELSE <<a>>

\* C13, amended: a sequence is passed unchanged, a truthy value v that is no
\* sequence is passed as <<v>>, and every falsy value (absent, null, 0, "",
\* false) gives the empty sequence.
C13_ArgsWrappedIfTruthy ==
    \A i \in Invoked :
        LET a == Get(DataOf(calls[i]), "args") IN
        tasks[calls[i].task].args =
            IF IsArray(a) THEN a.items
            ELSE IF a.tag \in {"undefined", "null"} THEN <<>>
            ELSE IF a.tag = "number" /\ a.n = 0 THEN <<>>
            ELSE IF a.tag = "string" /\ a.s = "" THEN <<>>
            ELSE <<a>>

\* a run called with <<5>> for a descriptor whose args is 5
C13_Witness ==
    /\ \E i \in Invoked :
        /\ Get(calls[i].input, "args") = Num(5)
        /\ tasks[calls[i].task].args = <<Num(5)>>

\* C14: a descriptor's id, when set, becomes options.id whatever id the
\* options carry,
\* so a Task made for the descriptor has that id as its effective id and in
\* the record task() resolves to; and stats() of a Task gives a record with
\* the Task's effective id whatever id the partial record carries.
C14_DescriptorIdWins ==
    \A i \in Invoked :
        LET c == calls[i]
            t == tasks[c.task]
            id == Get(DataOf(c), "id")
            partials == { EmptyObj, Set(EmptyObj, "id", Str("z")) }
        IN  c.ctor \in Functions =>
            /\ \A data \in partials :
                Get(stats(t, data), "id") = Get(t.options, "id")
            /\ Truthy(id) =>
                /\ Get(t.options, "id") = id
                /\ \A data \in partials : Get(stats(t, data), "id") = id
                /\ (c.state = "fulfilled" /\ isPojo(c.value)) =>
                        Get(c.value, "id") = id

\* a descriptor with id "x" and options.id "o", no hook: the record task()
\* resolved to has id "x"
C14_Witness ==
    \E i \in Invoked :
        /\ ~parser
        /\ Get(calls[i].input, "id") = Str("x")
        /\ Get(Get(calls[i].input, "options"), "id") = Str("o")
        /\ calls[i].state = "fulfilled"
        /\ isPojo(calls[i].value)
        /\ Get(calls[i].value, "id") = Str("x")

\* C15: getTaskConstructor(name) gives the constructor the registry holds
\* under name, and null for every name no register call has stored.
C15_LookupOnlyRegistered ==
    \A name \in TypeNames :
        getTaskConstructor(name) =
            IF types[name] # "none" THEN types[name] ELSE "null"

\* The faults of a parallel call that its check refuses: no branch started,
\* "invalid parallel type" raised in strict mode, else reported and {} given
ParallelRefused(c) ==
    /\ c.kids = <<>>
    /\ strict => (c.state = "rejected" /\ c.reason = "InvalidParallel")
    /\ ~strict => (c.state = "fulfilled" /\ c.value = EmptyObj)
    /\ (~strict /\ notify) => c.reports = <<"InvalidParallel">>

C17_RegistryFrame ==
    [][ /\ types' # types => (nregs' = nregs + 1 /\ lastRegister'.fault = "none")
        /\ (nregs' = nregs + 1 /\ lastRegister'.fault # "none") => types' = types
      ]_vars

\* a register call of a value that is no function, in non-strict mode, after
\* which the name has no entry; and calls made of the runner
C17_Witness ==
    /\ ~strict
    /\ lastRegister.fault = "NotCallable"
    /\ types[lastRegister.name] = "none"
    /\ calls # <<>>

C19_FaultsReportedOnce ==
    (~strict /\ notify) =>
        \A i \in CallIds :
            LET c == calls[i] IN
            /\ Len(c.reports) <= 1
            /\ (c.op = "task" /\ c.state = "fulfilled" /\ c.value # Null)
                    => c.reports = <<>>
            /\ c.op \in {"sequence", "parallel"} =>
                    \A j \in 1..Len(c.kids) : c.kids[j].state # "rejected"
            /\ (c.op = "run" /\ Settled(c)) =>
                    /\ c.state = "fulfilled"
                    /\ (~IsArray(c.input) /\ ~isPojo(c.input))
                            => Len(c.reports) = 1

\* The leaf descriptors of a task-description tree
RECURSIVE Leaves(_)
Leaves(v) ==
    IF IsArray(v)
    THEN LET Sum[i \in 0..Len(v.items)] ==
                IF i = 0 THEN 0 ELSE Sum[i - 1] + Leaves(v.items[i])
         IN  Sum[Len(v.items)]
    ELSE IF isPojo(v) /\ Truthy(Get(v, "type")) THEN 1
    ELSE IF isPojo(v)
    THEN LET Sum[i \in 0..Len(v.keys)] ==
                IF i = 0 THEN 0 ELSE Sum[i - 1] + Leaves(v.at[v.keys[i]])
         IN  Sum[Len(v.keys)]
    ELSE 0

\* C20: a run call settles, by resolving or, in strict mode only, by
\* rejecting, and the tasks constructed are no more than the leaves of the
\* trees the calls were given.
C20_RunSettlesOnce ==
    /\ \A i \in CallIds :
        LET c == calls[i] IN
        c.op = "run" => (Settled(c) /\ (c.state = "rejected" => strict))
    /\ LET Sum[i \in 0..Len(calls)] ==
                IF i = 0 THEN 0
                ELSE Sum[i - 1] + (IF calls[i].op = "task" THEN 1
                                   ELSE Leaves(calls[i].input))
       IN  Len(tasks) <= Sum[Len(calls)]

====
